---- MODULE Spec2Model ----
(***************************************************************************)
(* Model of external_sort.py: an external merge sort of a delimited text   *)
(* file (partition into chunk files, pool of sort tasks, rounds of n-way   *)
(* merge tasks, rename of the surviving file).                             *)
(*                                                                         *)
(* A file is the sequence of its lines, a line the sequence of its         *)
(* character codes without the line terminator (the terminator counts one  *)
(* character in create_temp_files' size test).  The input alphabet has no  *)
(* quote character and no line break inside a field.                       *)
(***************************************************************************)
EXTENDS Integers, Sequences, FiniteSets, TLC

(* ------------------------------ bounds -------------------------------- *)
MaxLines == 4        \* lines of the source file, header line included
MaxSize == 5         \* largest chunk threshold (characters) tried
MaxNWay == 2         \* largest fan-in tried
MaxProc == 2         \* largest worker pool tried
MaxRounds == 3       \* merge rounds explored before the model stops a run
MaxFiles == 3        \* workspace files a merge round may list in the model
MaxChunk == 2        \* lines of a file handed to sort_file or merge_files directly

(* --------------------------- character codes --------------------------- *)
Comma == 44
Semi == 59
Quote == 34
Space == 32

\* the lines a source file is made of: "1,2" "2,1" "1"
LineSet == { <<49, 44, 50>>, <<50, 44, 49>>, <<49>> }

Digits == <<"0", "1", "2", "3", "4", "5", "6", "7", "8", "9">>

(* ------------------------- sequences and text -------------------------- *)
RECURSIVE SplitAcc(_, _, _, _)
SplitAcc(s, d, cur, acc) ==
  IF s = <<>> THEN Append(acc, cur)
  ELSE IF Head(s) = d THEN SplitAcc(Tail(s), d, <<>>, Append(acc, cur))
  ELSE SplitAcc(Tail(s), d, Append(cur, Head(s)), acc)

\* str.split(d) for a one-character d
Split(s, d) == SplitAcc(s, d, <<>>, <<>>)

RECURSIVE Join(_, _)
\* d.join(parts), d a sequence
Join(parts, d) ==
  IF parts = <<>> THEN <<>>
  ELSE IF Len(parts) = 1 THEN parts[1]
  ELSE parts[1] \o d \o Join(Tail(parts), d)

RECURSIVE LStrip(_)
LStrip(s) == IF s # <<>> /\ Head(s) = Space THEN LStrip(Tail(s)) ELSE s

RECURSIVE RStrip(_)
RStrip(s) ==
  IF s # <<>> /\ s[Len(s)] = Space THEN RStrip(SubSeq(s, 1, Len(s) - 1)) ELSE s

\* str.strip()
Strip(s) == RStrip(LStrip(s))

RECURSIVE StrLess(_, _)
\* s < t for two Python strings (sequences of character codes)
StrLess(s, t) ==
  IF t = <<>> THEN FALSE
  ELSE IF s = <<>> THEN TRUE
  ELSE IF Head(s) # Head(t) THEN Head(s) < Head(t)
  ELSE StrLess(Tail(s), Tail(t))

RECURSIVE ListLess(_, _)
\* a < b for two Python lists of strings
ListLess(a, b) ==
  IF b = <<>> THEN FALSE
  ELSE IF a = <<>> THEN TRUE
  ELSE IF Head(a) # Head(b) THEN StrLess(Head(a), Head(b))
  ELSE ListLess(Tail(a), Tail(b))

ListLeq(a, b) == a = b \/ ListLess(a, b)

(* ------------------------------- csv ----------------------------------- *)
RECURSIVE ReadAcc(_, _, _, _, _)
ReadAcc(s, d, cur, acc, inq) ==
  IF s = <<>> THEN Append(acc, cur)
  ELSE IF inq THEN
         IF Head(s) = Quote THEN
              IF Len(s) >= 2 /\ s[2] = Quote
                THEN ReadAcc(Tail(Tail(s)), d, Append(cur, Quote), acc, TRUE)
                ELSE ReadAcc(Tail(s), d, cur, acc, FALSE)
         ELSE ReadAcc(Tail(s), d, Append(cur, Head(s)), acc, TRUE)
  ELSE IF Head(s) = Quote /\ cur = <<>> THEN ReadAcc(Tail(s), d, cur, acc, TRUE)
  ELSE IF Head(s) = d THEN ReadAcc(Tail(s), d, <<>>, Append(acc, cur), FALSE)
  ELSE ReadAcc(Tail(s), d, Append(cur, Head(s)), acc, FALSE)

\* one row of csv.reader(f, delimiter=d): an empty line is the empty row
ReadRow(line, d) == IF line = <<>> THEN <<>> ELSE ReadAcc(line, d, <<>>, <<>>, FALSE)

RECURSIVE Doubled(_)
Doubled(f) ==
  IF f = <<>> THEN <<>>
  ELSE IF Head(f) = Quote THEN <<Quote, Quote>> \o Doubled(Tail(f))
  ELSE <<Head(f)>> \o Doubled(Tail(f))

\* csv.QUOTE_MINIMAL
QuoteField(f, d) ==
  IF \E i \in 1..Len(f) : f[i] \in {d, Quote}
    THEN <<Quote>> \o Doubled(f) \o <<Quote>>
    ELSE f

\* the line csv.writer(f, delimiter=d).writerow(row) writes
WriteRow(row, d) ==
  IF row = << <<>> >> THEN <<Quote, Quote>>
  ELSE Join([i \in 1..Len(row) |-> QuoteField(row[i], d)], <<d>>)

\* _yield_rows(file_loc, delimiter): csv.reader(f) is called without the
\* delimiter, so the rows are always split on the comma
YieldRows(content, d) == [i \in 1..Len(content) |-> ReadRow(content[i], Comma)]

(* --------------------------- sort key, merge --------------------------- *)
\* row[i] for i in sort_keys raises IndexError unless every index is in range
KeyOK(row, keys) == \A i \in 1..Len(keys) : keys[i] + 1 <= Len(row)

\* lambda row: [row[i] for i in sort_keys]   (sort_keys are 0-based)
SortFunc(row, keys) == [i \in 1..Len(keys) |-> row[keys[i] + 1]]

\* the heap's minimum: smallest [key, order] pair
MinOrder(active, heads, keys) ==
  CHOOSE o \in active : \A p \in active \ {o} :
     \/ ListLess(SortFunc(heads[o], keys), SortFunc(heads[p], keys))
     \/ /\ SortFunc(heads[o], keys) = SortFunc(heads[p], keys)
        /\ o < p

RECURSIVE MergeLoop(_, _, _, _, _)
\* heapq.merge(*iterables, key=...) after heapify: heads[o] is the current
\* value of stream o, rest[o] what the stream has not yet produced.  The
\* result is what was yielded and whether the generator ended normally.
MergeLoop(active, heads, rest, out, keys) ==
  IF active = {} THEN [out |-> out, ok |-> TRUE]
  ELSE IF Cardinality(active) = 1 THEN
         LET o == CHOOSE x \in active : TRUE
         IN  [out |-> Append(out, heads[o]) \o rest[o], ok |-> TRUE]
  ELSE LET o == MinOrder(active, heads, keys)
           yielded == Append(out, heads[o])
       IN  IF rest[o] = <<>>
             THEN MergeLoop(active \ {o}, heads, rest, yielded, keys)
           ELSE IF ~ KeyOK(Head(rest[o]), keys)
             THEN [out |-> yielded, ok |-> FALSE]
           ELSE MergeLoop(active, [heads EXCEPT ![o] = Head(rest[o])],
                          [rest EXCEPT ![o] = Tail(rest[o])], yielded, keys)

\* heapq.merge over the row streams (a sequence of sequences of rows):
\* the first value of every stream is read and keyed before anything is
\* yielded
HeapqMerge(streams, keys) ==
  LET n == Len(streams)
      active == {o \in 1..n : streams[o] # <<>>}
  IN  IF \E o \in active : ~ KeyOK(Head(streams[o]), keys)
        THEN [out |-> <<>>, ok |-> FALSE]
        ELSE MergeLoop(active,
                       [o \in 1..n |-> IF o \in active THEN Head(streams[o]) ELSE <<>>],
                       [o \in 1..n |-> IF o \in active THEN Tail(streams[o]) ELSE <<>>],
                       <<>>, keys)

(* ------------------------------ sort_file ------------------------------ *)
RECURSIVE InsertRowBefore(_, _, _)
\* an insertion that puts the row before the rows of equal key
InsertRowBefore(sorted, row, keys) ==
  IF sorted = <<>> THEN <<row>>
  ELSE IF ListLeq(SortFunc(row, keys), SortFunc(Head(sorted), keys))
    THEN <<row>> \o sorted
    ELSE <<Head(sorted)>> \o InsertRowBefore(Tail(sorted), row, keys)

RECURSIVE InsertRow(_, _, _)
\* list.sort is stable: a row goes behind the rows already placed whose key
\* is not greater than its own
InsertRow(sorted, row, keys) ==
  IF sorted = <<>> THEN <<row>>
  ELSE IF ListLess(SortFunc(row, keys), SortFunc(Head(sorted), keys))
    THEN <<row>> \o sorted
    ELSE <<Head(sorted)>> \o InsertRow(Tail(sorted), row, keys)

RECURSIVE SortRows(_, _, _)
\* rows.sort(key=lambda row: [row[i] for i in sort_keys]), the rows taken
\* in their order
SortRows(rows, acc, keys) ==
  IF rows = <<>> THEN acc
  ELSE SortRows(Tail(rows), InsertRow(acc, Head(rows), keys), keys)

\* sort_file(file_loc, sort_keys, delimiter) on a file holding content: the
\* content it leaves and whether it returned normally (the key of a row
\* without the key columns raises IndexError before the file is reopened)
SortFile(content, keys, d) ==
  LET rows == [i \in DOMAIN content |-> ReadRow(content[i], d)]
  IN  IF \E i \in DOMAIN rows : ~ KeyOK(rows[i], keys)
        THEN [out |-> content, ok |-> FALSE]
        ELSE [out |-> [i \in DOMAIN rows |-> WriteRow(SortRows(rows, <<>>, keys)[i], d)],
              ok |-> TRUE]

(* ------------------------------- paths --------------------------------- *)
TmpDir == <<"./.tmp/">>

\* './.tmp/split{0}.csv'.format(file_num)
SplitName(file_num) == TmpDir \o <<"split", Digits[file_num + 1], ".csv">>

\* './.tmp/' + md5(''.join(files)).hexdigest() + '.csv'; the digest is
\* modelled as an injective function of the joined names
MergeName(files) == TmpDir \o <<"md5(">> \o Join(files, <<>>) \o <<")", ".csv">>

InTmp(p) == Len(p) >= 1 /\ SubSeq(p, 1, 1) = TmpDir

(* -------------------------- create_temp_files -------------------------- *)
RECURSIVE SumLenNoEol(_)
\* a length that leaves the line terminators out
SumLenNoEol(data) == IF data = <<>> THEN 0 ELSE Len(Head(data)) + SumLenNoEol(Tail(data))

RECURSIVE SumLen(_)
\* len(data): every line counts its characters and its line terminator
SumLen(data) == IF data = <<>> THEN 0 ELSE Len(Head(data)) + 1 + SumLen(Tail(data))

RECURSIVE ReadLoop(_, _, _, _)
\* the readline loop and the flush after it; st holds the locals data,
\* file_num, temp_files, write_file (<<>> for None), header_cols (<<>> for
\* None) and the chunk files written so far
ReadLoop(rows, hdr, size, st) ==
  IF rows = <<>> THEN
       IF st.write_file # <<>>
         THEN [st EXCEPT !.written = Append(@, st.data)]
         ELSE st
  ELSE IF hdr /\ st.header_cols = <<>> THEN
       ReadLoop(Tail(rows), hdr, size, [st EXCEPT !.header_cols = <<Head(rows)>>])
  ELSE LET opened == IF st.write_file = <<>>
                       THEN [st EXCEPT !.write_file = <<SplitName(st.file_num)>>,
                                       !.temp_files = Append(@, SplitName(st.file_num))]
                       ELSE st
           data == Append(opened.data, Head(rows))
       IN  IF SumLen(data) >= size
             THEN ReadLoop(Tail(rows), hdr, size,
                           [opened EXCEPT !.file_num = @ + 1,
                                          !.written = Append(@, data),
                                          !.data = <<>>,
                                          !.write_file = <<>>])
             ELSE ReadLoop(Tail(rows), hdr, size, [opened EXCEPT !.data = data])

\* create_temp_files without the write of lines 66-68: the chunk that is
\* open at the end of the source is left as open() created it
PartitionNoFlush(rows, size, hdr) ==
  LET r == ReadLoop(rows, hdr, size,
                    [data |-> <<>>, file_num |-> 0, temp_files |-> <<>>,
                     write_file |-> <<>>, header_cols |-> <<>>, written |-> <<>>])
  IN  IF r.write_file # <<>>
        THEN [r EXCEPT !.written[Len(r.written)] = <<>>]
        ELSE r

\* create_temp_files(file_loc, max_size, header) on a file holding rows:
\* temp_files[i] is written with written[i]
Partition(rows, size, hdr) ==
  ReadLoop(rows, hdr, size,
           [data |-> <<>>, file_num |-> 0, temp_files |-> <<>>,
            write_file |-> <<>>, header_cols |-> <<>>, written |-> <<>>])

(* -------------------------- _build_merge_tasks ------------------------- *)
RECURSIVE BatchLoop(_, _, _, _)
BatchLoop(files, n, batch, merge_tasks) ==
  IF files = <<>> THEN
       IF batch # <<>> THEN Append(merge_tasks, batch) ELSE merge_tasks
  ELSE LET b == Append(batch, Head(files))
       IN  IF Len(b) = n
             THEN BatchLoop(Tail(files), n, <<>>, Append(merge_tasks, b))
             ELSE BatchLoop(Tail(files), n, b, merge_tasks)

\* _build_merge_tasks without lines 143-144: the batch that is not full when
\* the files run out is dropped
BuildMergeTasksNoTail(files, n) ==
  LET r == BatchLoop(files, n, <<>>, <<>>)
  IN  IF Len(files) % n # 0 THEN SubSeq(r, 1, Len(r) - 1) ELSE r

\* _build_merge_tasks(files, n_way)
BuildMergeTasks(files, n) == BatchLoop(files, n, <<>>, <<>>)

(* ------------------------------- state --------------------------------- *)
VARIABLES
  file_loc,      \* external_sort's arguments
  sort_keys,
  n_proc,
  n_way,
  max_size,
  header,
  delimiter,
  overwrite,
  fs,            \* the files on disk: path |-> sequence of lines
  tmpdir,        \* whether the directory ./.tmp exists
  pc,            \* where external_sort is
  error,         \* the exception external_sort raised to its caller
  temp_files,    \* locals of external_sort
  header_row,    \* <<>> for None, else <<value>>
  header_arg,    \* <<>> for (None, ), else <<header_row>>
  tasks,         \* the tasks handed to the current Pool, in dispatch order
  round,         \* merge rounds started
  source         \* the content of file_loc when external_sort was called

vars == <<file_loc, sort_keys, n_proc, n_way, max_size, header, delimiter,
          overwrite, fs, tmpdir, pc, error, temp_files, header_row,
          header_arg, tasks, round, source>>

params == <<file_loc, sort_keys, n_proc, n_way, max_size, header, delimiter,
            overwrite, source>>

\* 'd.c', 'd' and './d'
FileLocs == { <<"d", ".", "c">>, <<"d">>, <<".", "/", "d">> }

SeqsUpTo(S, n) == UNION { [1..k -> S] : k \in 0..n }

\* a call of external_sort with its arguments drawn from the given sets, on
\* a disk that holds the source file (and maybe a leftover ./.tmp)
Call(locs, keys, nways, delims, ows, sources) ==
  /\ file_loc \in locs
  /\ sort_keys \in keys
  /\ n_proc = MaxProc
  /\ n_way \in nways
  /\ max_size \in {1, MaxSize}
  /\ header \in BOOLEAN
  /\ delimiter \in delims
  /\ overwrite \in ows
  /\ source \in sources
  /\ fs = [p \in {file_loc} |-> source]
  /\ tmpdir \in BOOLEAN
  /\ pc = "create_temp_files"
  /\ error = "none"
  /\ temp_files = <<>>
  /\ header_row = <<>>
  /\ header_arg = <<>>
  /\ tasks = <<>>
  /\ round = 0

Init ==
  Call({ <<"d", ".", "c">> }, { <<0>>, <<1>> }, 1..MaxNWay, {Comma, Semi}, {FALSE},
       SeqsUpTo(LineSet, MaxLines))

(* ------------------------------ the disk ------------------------------- *)
\* os.listdir('./.tmp/'), as the set of paths
ListDir == {p \in DOMAIN fs : InTmp(p)}

WriteFile(f, p, content) == [q \in DOMAIN f \cup {p} |-> IF q = p THEN content ELSE f[q]]

\* os.remove / os.rename that leaves the file where it was
RemoveFilesKeep(f, ps) == f

RemoveFiles(f, ps) == [q \in DOMAIN f \ ps |-> f[q]]

\* the orders in which os.listdir can return a set of paths
Listings(S) == {l \in [1..Cardinality(S) -> S] : \A p \in S : \E i \in DOMAIN l : l[i] = p}

Reverse(q) == [i \in 1..Len(q) |-> q[Len(q) + 1 - i]]

(* --------------------------- external_sort ----------------------------- *)
\* line 177: create_temp_files; os.makedirs raises when ./.tmp exists
CreateTempFiles ==
  /\ pc = "create_temp_files"
  /\ IF tmpdir
       THEN /\ pc' = "failed"
            /\ error' = "FileExistsError"
            /\ UNCHANGED <<fs, tmpdir, temp_files, header_row>>
       ELSE LET r == Partition(fs[file_loc], max_size, header)
            IN  /\ tmpdir' = TRUE
                /\ fs' = [p \in DOMAIN fs \cup {r.temp_files[i] : i \in DOMAIN r.temp_files} |->
                            IF \E i \in DOMAIN r.temp_files : r.temp_files[i] = p
                              THEN r.written[CHOOSE i \in DOMAIN r.temp_files : r.temp_files[i] = p]
                              ELSE fs[p]]
                /\ temp_files' = r.temp_files
                /\ header_row' = r.header_cols
                /\ pc' = "split_header"
                /\ UNCHANGED error
  /\ UNCHANGED <<params, header_arg, tasks, round>>

\* line 178: header_row.strip().split(delimiter); None has no strip
SplitHeader ==
  /\ pc = "split_header"
  /\ IF header_row = <<>>
       THEN /\ pc' = "failed"
            /\ error' = "AttributeError"
            /\ UNCHANGED header_row
       ELSE /\ header_row' = <<Split(Strip(header_row[1]), delimiter)>>
            /\ pc' = "sort_dispatch"
            /\ UNCHANGED error
  /\ UNCHANGED <<params, fs, tmpdir, temp_files, header_arg, tasks, round>>

\* lines 181-188: s_tasks is popped from its end; apply_async(args) hands the
\* pool the tuple (file, sort_keys, delimiter) as the function to call
SortDispatch ==
  /\ pc = "sort_dispatch"
  /\ tasks' = [i \in 1..Len(temp_files) |->
                 [func |-> "args", files |-> <<Reverse(temp_files)[i]>>,
                  hdr |-> <<>>, st |-> "queued", lost |-> FALSE]]
  /\ pc' = "sort_join"
  /\ UNCHANGED <<params, fs, tmpdir, error, temp_files, header_row, header_arg, round>>

\* a join that returns without waiting for the tasks
FinishedAlways(t) == TRUE

\* a task the join of its pool no longer waits for
Finished(t) == t.st \in {"ok", "error"}

\* a pool worker is free and task i is the next one of the queue
CanStart(i) ==
  /\ tasks[i].st = "queued"
  /\ \A j \in 1..(i - 1) : tasks[j].st # "queued"
  /\ Cardinality({j \in DOMAIN tasks : tasks[j].st = "open"}) < n_proc

\* a worker runs a task of the sort pool: calling the tuple raises
\* TypeError, which stays in the AsyncResult nobody reads
RunSortTask(i) ==
  /\ tasks[i].func = "args"
  /\ CanStart(i)
  /\ tasks' = [tasks EXCEPT ![i].st = "error"]
  /\ UNCHANGED <<params, fs, tmpdir, pc, error, temp_files, header_row, header_arg, round>>

\* lines 190-191: s_pool.close(); s_pool.join()
SortJoin ==
  /\ pc = "sort_join"
  /\ \A i \in DOMAIN tasks : Finished(tasks[i])
  /\ pc' = "merge_loop"
  /\ tasks' = <<>>
  /\ UNCHANGED <<params, fs, tmpdir, error, temp_files, header_row, header_arg, round>>

\* lines 194-207: the loop test, the listing, the batches, the header
\* argument and the dispatch (m_tasks is popped from its end)
MergeRound ==
  /\ pc = "merge_loop"
  /\ IF Cardinality(ListDir) > 1
       THEN /\ round < MaxRounds
            /\ Cardinality(ListDir) <= MaxFiles
            /\ \E m_files \in Listings(ListDir) :
                 LET m_tasks == BuildMergeTasks(m_files, n_way)
                     harg == IF Len(m_tasks) = 1 THEN header_row ELSE <<>>
                 IN  /\ header_arg' = harg
                     /\ tasks' = [i \in 1..Len(m_tasks) |->
                                    [func |-> "merge_files", files |-> Reverse(m_tasks)[i],
                                     hdr |-> harg, st |-> "queued", lost |-> FALSE]]
            /\ round' = round + 1
            /\ pc' = "merge_join"
       ELSE /\ pc' = "cleanup"
            /\ UNCHANGED <<header_arg, tasks, round>>
  /\ UNCHANGED <<params, fs, tmpdir, error, temp_files, header_row>>

\* merge_files lines 111-120: the output file is created (or truncated);
\* what is written stays in the file object's buffer until it is closed
MergeOpen(i) ==
  /\ tasks[i].func = "merge_files"
  /\ CanStart(i)
  /\ fs' = WriteFile(fs, MergeName(tasks[i].files), <<>>)
  /\ tasks' = [tasks EXCEPT ![i].st = "open"]
  /\ UNCHANGED <<params, tmpdir, pc, error, temp_files, header_row, header_arg, round>>

\* what merge_files (header, then the merged rows) has written when the
\* with block is left, and whether it was left normally
MergeFiles(files, keys, hdr, d, disk) ==
  IF \E i \in DOMAIN files : files[i] \notin DOMAIN disk
    THEN [out |-> IF hdr # <<>> THEN <<WriteRow(hdr[1], d)>> ELSE <<>>, ok |-> FALSE]
    ELSE LET m == HeapqMerge([i \in DOMAIN files |-> YieldRows(disk[files[i]], d)], keys)
         IN  [out |-> (IF hdr # <<>> THEN <<WriteRow(hdr[1], d)>> ELSE <<>>)
                        \o [j \in DOMAIN m.out |-> WriteRow(m.out[j], d)],
              ok |-> m.ok]

\* merge_files lines 122-128: merge, close the output, remove the inputs.
\* external_sort passes no delimiter, so merge_files runs with its default.
MergeRun(i) ==
  /\ tasks[i].func = "merge_files"
  /\ tasks[i].st = "open"
  /\ LET t == tasks[i]
         name == MergeName(t.files)
         m == MergeFiles(t.files, sort_keys, t.hdr, Comma, fs)
         closed == IF t.lost THEN fs ELSE WriteFile(fs, name, m.out)
         gone == {t.files[j] : j \in DOMAIN t.files}
     IN  IF m.ok
           THEN /\ fs' = RemoveFiles(closed, gone)
                /\ tasks' = [j \in DOMAIN tasks |->
                               IF j = i THEN [t EXCEPT !.st = "ok"]
                               ELSE IF tasks[j].st = "open" /\ MergeName(tasks[j].files) \in gone
                                 THEN [tasks[j] EXCEPT !.lost = TRUE]
                               ELSE tasks[j]]
           ELSE /\ fs' = closed
                /\ tasks' = [tasks EXCEPT ![i].st = "error"]
  /\ UNCHANGED <<params, tmpdir, pc, error, temp_files, header_row, header_arg, round>>

\* lines 209-210: m_pool.close(); m_pool.join()
MergeJoin ==
  /\ pc = "merge_join"
  /\ \A i \in DOMAIN tasks : Finished(tasks[i])
  /\ pc' = "merge_loop"
  /\ tasks' = <<>>
  /\ UNCHANGED <<params, fs, tmpdir, error, temp_files, header_row, header_arg, round>>

\* a destination that is always the input path
NewFileLocSame(loc, ow) == loc

\* lines 213-218
NewFileLoc(loc, ow) ==
  IF ow THEN loc
  ELSE LET parts == Split(loc, ".")
           file_ext == parts[Len(parts)]
           file_name == Join(SubSeq(parts, 1, Len(parts) - 1), <<".">>)
       IN  file_name \o <<"_sorted", ".">> \o file_ext

RECURSIVE DirName(_)
\* the directory part of a path
DirName(p) ==
  IF p = <<>> THEN <<>>
  ELSE IF p[Len(p)] = "/" THEN p
  ELSE DirName(SubSeq(p, 1, Len(p) - 1))

\* the directories that exist besides ./.tmp: the working directory
DirExists(d) == d \in { <<>>, <<".", "/">> }

\* lines 213-222: destination, rename of the listed file, rmdir
Cleanup ==
  /\ pc = "cleanup"
  /\ LET new_file_loc == NewFileLoc(file_loc, overwrite)
     IN  IF ListDir = {}
           THEN /\ pc' = "failed"
                /\ error' = "IndexError"
                /\ UNCHANGED <<fs, tmpdir>>
         ELSE IF ~ DirExists(DirName(new_file_loc))
           THEN /\ pc' = "failed"
                /\ error' = "FileNotFoundError"
                /\ UNCHANGED <<fs, tmpdir>>
         ELSE \E merged_file \in ListDir :
                /\ fs' = RemoveFiles(WriteFile(fs, new_file_loc, fs[merged_file]), {merged_file})
                /\ tmpdir' = FALSE
                /\ pc' = "done"
                /\ UNCHANGED error
  /\ UNCHANGED <<params, temp_files, header_row, header_arg, tasks, round>>

Next ==
  \/ CreateTempFiles
  \/ SplitHeader
  \/ SortDispatch
  \/ \E i \in DOMAIN tasks : RunSortTask(i)
  \/ SortJoin
  \/ MergeRound
  \/ \E i \in DOMAIN tasks : MergeOpen(i)
  \/ \E i \in DOMAIN tasks : MergeRun(i)
  \/ MergeJoin
  \/ Cleanup

Spec == Init /\ [][Next]_vars

\* the lines "1" and "1,2"
DestLines == { <<49>>, <<49, 44, 50>> }

\* calls that vary the input path and the overwrite flag, with a key column
\* every record has and a fan-in that merges
InitDest ==
  Call(FileLocs, { <<0>> }, 2..MaxNWay, {Comma}, BOOLEAN, SeqsUpTo(DestLines, MaxLines))

SpecDest == InitDest /\ [][Next]_vars

\* calls of create_temp_files alone, over every threshold up to MaxSize
InitPart ==
  /\ file_loc = <<"d", ".", "c">>
  /\ sort_keys = <<0>>
  /\ n_proc = MaxProc
  /\ n_way = MaxNWay
  /\ max_size \in 1..MaxSize
  /\ header \in BOOLEAN
  /\ delimiter = Comma
  /\ overwrite = FALSE
  /\ source \in SeqsUpTo(LineSet, MaxLines)
  /\ fs = [p \in {file_loc} |-> source]
  /\ tmpdir \in BOOLEAN
  /\ pc = "create_temp_files"
  /\ error = "none"
  /\ temp_files = <<>>
  /\ header_row = <<>>
  /\ header_arg = <<>>
  /\ tasks = <<>>
  /\ round = 0

NextPart == CreateTempFiles

SpecPart == InitPart /\ [][NextPart]_vars

\* calls that are followed up to the dispatch of the first merge round, for
\* every fan-in from 1
InitBatch ==
  Call({ <<"d", ".", "c">> }, { <<0>> }, 1..MaxNWay, {Comma}, {FALSE},
       SeqsUpTo(DestLines, MaxLines))

NextBatch ==
  \/ CreateTempFiles
  \/ SplitHeader
  \/ SortDispatch
  \/ \E i \in DOMAIN tasks : RunSortTask(i)
  \/ SortJoin
  \/ MergeRound

SpecBatch == InitBatch /\ [][NextBatch]_vars

(* ------------------- sort_file and merge_files, called ------------------ *)
\* two chunk files of up to MaxChunk lines each in ./.tmp, before a caller
\* sorts them with sort_file and merges them with merge_files
InitStable ==
  /\ file_loc = <<"d", ".", "c">>
  /\ sort_keys \in { <<0>>, <<1>> }
  /\ n_proc = MaxProc
  /\ n_way = MaxNWay
  /\ max_size = MaxSize
  /\ header = FALSE
  /\ delimiter \in {Comma, Semi}
  /\ overwrite = FALSE
  /\ source = <<>>
  /\ temp_files = <<SplitName(0), SplitName(1)>>
  /\ fs \in [{SplitName(0), SplitName(1)} -> SeqsUpTo(LineSet, MaxChunk)]
  /\ tmpdir = TRUE
  /\ pc = "unit"
  /\ error = "none"
  /\ header_row = <<>>
  /\ header_arg = <<>>
  /\ tasks = <<>>
  /\ round = 0

\* sort_file(p, sort_keys, delimiter), the call line 187 builds the
\* arguments of; tasks keeps the calls made
SortFileCall(p) ==
  /\ pc = "unit"
  /\ p \in DOMAIN fs
  /\ \A i \in DOMAIN tasks : tasks[i].files # <<p>>
  /\ LET r == SortFile(fs[p], sort_keys, delimiter)
     IN  /\ fs' = WriteFile(fs, p, r.out)
         /\ tasks' = Append(tasks, [func |-> "sort_file", files |-> <<p>>, hdr |-> <<>>,
                                    st |-> IF r.ok THEN "ok" ELSE "error", lost |-> FALSE])
         /\ pc' = IF r.ok THEN "unit" ELSE "failed"
         /\ error' = IF r.ok THEN error ELSE "IndexError"
  /\ UNCHANGED <<params, tmpdir, temp_files, header_row, header_arg, round>>

\* merge_files(temp_files, sort_keys, None), the call of lines 206-207: no
\* delimiter is passed
MergeFilesCall ==
  /\ pc = "unit"
  /\ LET m == MergeFiles(temp_files, sort_keys, <<>>, Comma, fs)
         closed == WriteFile(fs, MergeName(temp_files), m.out)
     IN  /\ fs' = IF m.ok THEN RemoveFiles(closed, {temp_files[j] : j \in DOMAIN temp_files})
                          ELSE closed
         /\ tasks' = Append(tasks, [func |-> "merge_files", files |-> temp_files, hdr |-> <<>>,
                                    st |-> IF m.ok THEN "ok" ELSE "error", lost |-> FALSE])
         /\ pc' = IF m.ok THEN "returned" ELSE "failed"
         /\ error' = IF m.ok THEN error ELSE "IndexError"
  /\ UNCHANGED <<params, tmpdir, temp_files, header_row, header_arg, round>>

NextStable ==
  \/ \E p \in DOMAIN fs : SortFileCall(p)
  \/ MergeFilesCall

SpecStable == InitStable /\ [][NextStable]_vars

(* ============================== properties ============================== *)
\* the destination of the run
Dest == NewFileLoc(file_loc, overwrite)

Range(q) == {q[i] : i \in DOMAIN q}

Count(q, x) == Cardinality({i \in DOMAIN q : q[i] = x})

SameBag(a, b) == \A x \in Range(a) \cup Range(b) : Count(a, x) = Count(b, x)

\* the records of a sequence of lines, under the run's delimiter
Records(lines) == [i \in DOMAIN lines |-> ReadRow(lines[i], delimiter)]

\* the source's lines after the header line
SourceData == IF header /\ source # <<>> THEN Tail(source) ELSE source

\* the last merge round had one task, which was given the header
HeaderPassed == round > 0 /\ header_arg # <<>>

\* the lines of the finished output after the header line the last merge wrote
OutData == IF HeaderPassed THEN Tail(fs[Dest]) ELSE fs[Dest]

\* rows are in ascending order of the key (rows without the key columns
\* are not compared)
Ascending(rows, keys) ==
  \A i \in 1..(Len(rows) - 1) :
     (KeyOK(rows[i], keys) /\ KeyOK(rows[i + 1], keys))
        => ListLeq(SortFunc(rows[i], keys), SortFunc(rows[i + 1], keys))

\* C1 (global order): when external_sort has completed, every two adjacent
\* records of the output are in ascending order of the sort_keys fields.
C1_GlobalOrder == pc = "done" => Ascending(Records(OutData), sort_keys)

\* C2 (round-trip completeness): when external_sort has completed, the
\* output's records after the header are the same multiset as the source's
\* records after the header.
C2_RoundTrip == pc = "done" => SameBag(Records(OutData), Records(SourceData))

\* C3 (header fidelity): with header=True, for any number of chunks, the
\* first line of the finished output is the source's header line, and the
\* output holds that line once more than the source's data lines do.
C3_HeaderFidelity ==
  (pc = "done" /\ header) =>
     /\ fs[Dest] # <<>>
     /\ fs[Dest][1] = source[1]
     /\ Count(fs[Dest], source[1]) = 1 + Count(SourceData, source[1])

\* the source is fully empty or holds only the header line
EmptyInput == source = <<>> \/ (header /\ Len(source) = 1)

\* C4 (empty input): on an empty or header-only source (and no leftover
\* workspace) external_sort raises no error on its way to Done.
C4_EmptyInput == (EmptyInput /\ error # "FileExistsError") => pc # "failed"

\* C5 (failure is fatal): when a task of the pool has failed, external_sort
\* does not go past the join of that pool, except into Failed.
C5_FailureIsFatal ==
  [][ (pc \in {"sort_join", "merge_join"} /\ \E i \in DOMAIN tasks : tasks[i].st = "error")
        => pc' \in {pc, "failed"} ]_vars

\* the files the tasks of the current round were given
RoundFiles == UNION { Range(tasks[i].files) : i \in DOMAIN tasks }

\* C6 (termination of merging): for every number of chunks and every
\* n_way >= 1 the round loop ends.  Stated by its variant: a round in which
\* no task failed leaves fewer files than it listed (a round that does not
\* is followed by a round over the same number of files, without end).
C6_MergingTerminates ==
  [][ (pc = "merge_join" /\ pc' = "merge_loop" /\ n_way >= 1
         /\ \A i \in DOMAIN tasks : tasks[i].st = "ok")
        => Cardinality(ListDir) < Cardinality(RoundFiles) ]_vars

RECURSIVE Flatten(_)
Flatten(qs) == IF qs = <<>> THEN <<>> ELSE Head(qs) \o Flatten(Tail(qs))

\* C7 (Stage Merger contract): a merge_files invocation that succeeds on
\* input files each sorted ascending by the sort key leaves one new file
\* with every record of every input in ascending order of the sort key,
\* and none of its inputs.
C7_MergerContract ==
  [][ \A i \in DOMAIN tasks :
        (/\ tasks[i].func = "merge_files" /\ tasks[i].st = "open"
         /\ tasks'[i].st = "ok"
         /\ \A j \in DOMAIN tasks[i].files :
               /\ tasks[i].files[j] \in DOMAIN fs
               /\ \A k \in DOMAIN fs[tasks[i].files[j]] :
                     KeyOK(Records(fs[tasks[i].files[j]])[k], sort_keys)
               /\ Ascending(Records(fs[tasks[i].files[j]]), sort_keys))
        => LET name == MergeName(tasks[i].files)
               ins == Flatten([j \in DOMAIN tasks[i].files |-> fs[tasks[i].files[j]]])
               hdr == IF tasks[i].hdr # <<>> THEN 1 ELSE 0
           IN  /\ name \in DOMAIN fs'
               /\ name \notin Range(tasks[i].files)
               /\ SameBag(Records(SubSeq(fs'[name], 1 + hdr, Len(fs'[name]))), Records(ins))
               /\ Ascending(Records(SubSeq(fs'[name], 1 + hdr, Len(fs'[name]))), sort_keys)
               /\ \A j \in DOMAIN tasks[i].files : tasks[i].files[j] \notin DOMAIN fs' ]_vars

\* C8 (idempotence under re-sort): when the source's records are already in
\* ascending order of the key, the finished output holds the same record
\* sequence, whatever the chunking, the fan-in and the listing orders.
C8_Idempotence ==
  (/\ pc = "done"
   /\ \A i \in DOMAIN SourceData : KeyOK(Records(SourceData)[i], sort_keys)
   /\ Ascending(Records(SourceData), sort_keys))
     => Records(OutData) = Records(SourceData)

\* C9 (workspace cleanliness): when external_sort is Done, ./.tmp does not
\* exist, no chunk or merge file is left, and the disk holds the source
\* file and the destination file only.
C9_WorkspaceClean ==
  pc = "done" => /\ ~ tmpdir
                 /\ ListDir = {}
                 /\ DOMAIN fs = {file_loc, Dest}

\* Done after two merge rounds, whose intermediate files are all gone
C9_Witness == pc = "done" /\ round >= 2 /\ Len(temp_files) = 3

\* C10 (destination): the step to Done moves the one workspace file; with
\* overwrite=True its content is then at the input path, in place of the
\* original content; with overwrite=False it is at a new path in the input
\* path's directory whose name has _sorted in it, and the input path still
\* holds the source content.
C10_Destination ==
  [][ (pc = "cleanup" /\ pc' = "done") =>
        \E m \in ListDir :
          /\ ListDir = {m}
          /\ IF overwrite
               THEN /\ DOMAIN fs' = {file_loc}
                    /\ fs'[file_loc] = fs[m]
               ELSE \E d \in DOMAIN fs' :
                      /\ d # file_loc
                      /\ DOMAIN fs' = {file_loc, d}
                      /\ fs'[d] = fs[m]
                      /\ "_sorted" \in Range(d)
                      /\ DirName(d) = DirName(file_loc)
                      /\ fs'[file_loc] = source ]_vars

\* Done with overwrite=True and the input path holding other content than
\* the source had
C10_Witness == pc = "done" /\ overwrite /\ fs[file_loc] # source /\ round >= 1

\* C11 (sorted before merge): when the first merge round starts, every chunk
\* file of the partitioner is in ascending order of the sort key.
C11_SortedBeforeMerge ==
  [][ (pc = "merge_loop" /\ pc' = "merge_join" /\ round = 0) =>
        \A i \in DOMAIN temp_files :
           temp_files[i] \in DOMAIN fs
             => Ascending(Records(fs[temp_files[i]]), sort_keys) ]_vars

\* C12 (sort barrier): while a dispatched sort task is still pending or
\* running, external_sort stays at the join of the sort pool: it takes no
\* workspace listing and no merge task is dispatched or running.
C12_SortBarrier ==
  [][ (\E i \in DOMAIN tasks :
          tasks[i].func = "args" /\ tasks[i].st \in {"queued", "open"})
        => /\ pc' = "sort_join"
           /\ round' = 0
           /\ \A i \in DOMAIN tasks' : tasks'[i].func # "merge_files" ]_vars

\* the sort pool is being joined with one task done and another still queued
C12_Witness ==
  /\ pc = "sort_join"
  /\ \E i \in DOMAIN tasks : tasks[i].func = "args" /\ tasks[i].st = "queued"
  /\ \E i \in DOMAIN tasks : tasks[i].func = "args" /\ tasks[i].st = "error"

\* C13 (round barrier and snapshot): the join that precedes the next
\* listing is passed only when every merge task of the round has ended, and
\* the workspace then holds no output of a merge that did not complete and
\* no input of a merge whose output is there.
C13_RoundSnapshot ==
  [][ (pc = "merge_join" /\ pc' = "merge_loop") =>
        /\ \A i \in DOMAIN tasks : tasks[i].st \in {"ok", "error"}
        /\ \A i \in DOMAIN tasks :
              tasks[i].st = "error" => MergeName(tasks[i].files) \notin ListDir
        /\ \A i \in DOMAIN tasks :
              MergeName(tasks[i].files) \in ListDir
                => \A j \in DOMAIN tasks[i].files : tasks[i].files[j] \notin ListDir ]_vars

\* C14 (no file contention): the tasks dispatched together work on disjoint
\* files; the output name of each merge task differs from the other
\* outputs of the round, from the inputs of the other tasks and from every
\* file the workspace holds.
C14_NoFileContention ==
  [][ (pc \in {"sort_dispatch", "merge_loop"} /\ pc' \in {"sort_join", "merge_join"}) =>
        \A i \in DOMAIN tasks' :
           /\ \A j \in DOMAIN tasks' \ {i} :
                 Range(tasks'[i].files) \cap Range(tasks'[j].files) = {}
           /\ tasks'[i].func = "merge_files" =>
                 /\ MergeName(tasks'[i].files) \notin ListDir
                 /\ \A j \in DOMAIN tasks' \ {i} :
                       /\ MergeName(tasks'[i].files) # MergeName(tasks'[j].files)
                       /\ MergeName(tasks'[i].files) \notin Range(tasks'[j].files) ]_vars

\* C15 (header attachment): a merge task is given the header only when it
\* is the one task of its round, and no round is dispatched after a round
\* whose task was given the header.
C15_HeaderAttachment ==
  [][ (pc = "merge_loop" /\ pc' = "merge_join") =>
        /\ \A i \in DOMAIN tasks' : tasks'[i].hdr # <<>> => Len(tasks') = 1
        /\ ~ HeaderPassed ]_vars

\* the chunk files create_temp_files returned, in the order of the list
Chunks(files, disk) == [i \in DOMAIN files |-> disk[files[i]]]

\* the size of a file: the characters of its lines and their terminators
Chars(lines) == Len(Flatten(lines)) + Len(lines)

\* C16 (partition coverage): create_temp_files returns distinct chunk files
\* that all exist and hold at least one line, and their contents, in the
\* order returned, concatenate to the source's lines after the header line
\* (the whole source when header=False).
C16_PartitionCoverage ==
  [][ (pc = "create_temp_files" /\ pc' = "split_header") =>
        /\ \A i \in DOMAIN temp_files' :
              /\ temp_files'[i] \in DOMAIN fs'
              /\ fs'[temp_files'[i]] # <<>>
              /\ \A j \in DOMAIN temp_files' \ {i} : temp_files'[j] # temp_files'[i]
        /\ (\A i \in DOMAIN temp_files' : temp_files'[i] \in DOMAIN fs')
              => Flatten(Chunks(temp_files', fs')) = SourceData
        /\ fs'[file_loc] = source ]_vars

\* a source with a header cut into two or more chunks, one of them of two
\* or more lines
C16_Witness ==
  /\ pc = "split_header"
  /\ header
  /\ Len(temp_files) >= 2
  /\ \E i \in DOMAIN temp_files : Len(fs[temp_files[i]]) >= 2

BatchesOK(b, files, n) ==
  /\ \A i \in DOMAIN b : b[i] # <<>> /\ Len(b[i]) <= n
  /\ \A i \in 1..(Len(b) - 1) : Len(b[i]) = n
  /\ \A i \in DOMAIN b : \A j \in DOMAIN b \ {i} : Range(b[i]) \cap Range(b[j]) = {}
  /\ \A f \in Range(files) : Count(Flatten(b), f) = 1
  /\ Flatten(b) = files

\* C18 (MergeTask batching): for every listing of the workspace and every
\* n_way >= 1, the batches _build_merge_tasks returns, and the round
\* dispatches, are non-empty, pairwise disjoint, of at most n_way files
\* (only the last may have fewer) and cover the listing once, in its order.
C18_Batching ==
  [][ (pc = "merge_loop" /\ pc' = "merge_join" /\ n_way >= 1) =>
        /\ \A m_files \in Listings(ListDir) :
              BatchesOK(BuildMergeTasks(m_files, n_way), m_files, n_way)
        /\ \E m_files \in Listings(ListDir) :
              /\ Reverse([i \in DOMAIN tasks' |-> tasks'[i].files])
                    = BuildMergeTasks(m_files, n_way)
              /\ BatchesOK(Reverse([i \in DOMAIN tasks' |-> tasks'[i].files]),
                           m_files, n_way) ]_vars

\* a round of two tasks for fan-in 2, the last batch (dispatched first)
\* of one file
C18_Witness ==
  /\ pc = "merge_join"
  /\ n_way = 2
  /\ Len(tasks) = 2
  /\ Len(tasks[1].files) = 1
  /\ Len(tasks[2].files) = 2
  /\ \A i \in DOMAIN tasks : tasks[i].st = "queued"

\* out is a rearrangement of rows in ascending key order in which rows of
\* equal key keep the order they have in rows
IsStableSort(rows, out, keys) ==
  /\ Len(out) = Len(rows)
  /\ \E perm \in [DOMAIN rows -> DOMAIN rows] :
        /\ \A i \in DOMAIN rows : \A j \in DOMAIN rows : i # j => perm[i] # perm[j]
        /\ \A i \in DOMAIN rows : out[i] = rows[perm[i]]
        /\ \A i \in DOMAIN rows : \A j \in DOMAIN rows :
              i < j => \/ ListLess(SortFunc(out[i], keys), SortFunc(out[j], keys))
                       \/ /\ SortFunc(out[i], keys) = SortFunc(out[j], keys)
                          /\ perm[i] < perm[j]

RECURSIVE IsShuffle(_, _)
\* out takes every element of every stream, each stream in its own order
IsShuffle(out, streams) ==
  IF out = <<>> THEN \A o \in DOMAIN streams : streams[o] = <<>>
  ELSE \E o \in DOMAIN streams :
          /\ streams[o] # <<>>
          /\ Head(streams[o]) = Head(out)
          /\ IsShuffle(Tail(out), [streams EXCEPT ![o] = Tail(@)])

\* C19 (stability): a sort_file call that returns leaves the same paths, and
\* in the sorted file the same records in ascending key order with records
\* of equal key in their original order; a merge_files call that returns
\* leaves an output in which the records of each input file are in the
\* order they had in that file.
C19_Stability ==
  [][ /\ (pc = "unit" /\ pc' = "unit" /\ Len(tasks') = Len(tasks) + 1) =>
           LET p == tasks'[Len(tasks')].files[1]
           IN  /\ DOMAIN fs' = DOMAIN fs
               /\ \A q \in DOMAIN fs \ {p} : fs'[q] = fs[q]
               /\ IsStableSort(Records(fs[p]), Records(fs'[p]), sort_keys)
      /\ (pc = "unit" /\ pc' = "returned") =>
           /\ MergeName(temp_files) \in DOMAIN fs'
           /\ IsShuffle(Records(fs'[MergeName(temp_files)]),
                        [j \in DOMAIN temp_files |-> Records(fs[temp_files[j]])]) ]_vars

\* both files were sorted, then merged; the output holds two different
\* records of equal key next to each other
C19_Witness ==
  /\ pc = "returned"
  /\ Len(tasks) = 3
  /\ \E i \in 1..(Len(fs[MergeName(temp_files)]) - 1) :
        LET out == Records(fs[MergeName(temp_files)])
        IN  /\ out[i] # out[i + 1]
            /\ KeyOK(out[i], sort_keys) /\ KeyOK(out[i + 1], sort_keys)
            /\ SortFunc(out[i], sort_keys) = SortFunc(out[i + 1], sort_keys)

\* C20 (delimiter consistency): a merge that returns has read every input
\* line into the fields the run's delimiter gives (so its key fields are
\* those of the chunk sort), and every line it wrote, header line included,
\* is written with the run's delimiter.
C20_DelimiterConsistency ==
  [][ \A i \in DOMAIN tasks :
        (/\ tasks[i].func = "merge_files" /\ tasks[i].st = "open"
         /\ tasks'[i].st = "ok"
         /\ MergeName(tasks[i].files) \in DOMAIN fs')
        => /\ \A j \in DOMAIN tasks[i].files :
                 tasks[i].files[j] \in DOMAIN fs
                   => YieldRows(fs[tasks[i].files[j]], delimiter)
                         = Records(fs[tasks[i].files[j]])
           /\ \A k \in DOMAIN fs'[MergeName(tasks[i].files)] :
                 LET line == fs'[MergeName(tasks[i].files)][k]
                 IN  line = WriteRow(ReadRow(line, delimiter), delimiter) ]_vars

====
